---------------------------- MODULE Spec2Model ----------------------------
(***************************************************************************)
(* Mergington High School API (src/src/app.py): the activity rosters, the  *)
(* student registry, their two CSV files, and the request handlers that    *)
(* validate, mutate, save and roll back.                                   *)
(*                                                                         *)
(* An email is a sequence of characters, so that a row cut short by a      *)
(* failed write holds a prefix of the email it was writing.  A file is a   *)
(* record [exists, rows]: rows is what csv.reader yields for the file's    *)
(* text, one sequence of fields per line.                                  *)
(***************************************************************************)
EXTENDS Integers, Sequences, FiniteSets, TLC

\* ------------------------------------------------------------------ bounds
\* max_participants of the two modelled activities (12 and 10 in the source),
\* scaled down to the size of the seeded rosters, so that a roster fills and
\* empties within a few requests.
ChessMax == 2
MathMax == 2
\* STUDENT_CAPACITY (100 in the source), scaled down likewise.
STUDENT_CAPACITY == 3

\* ------------------------------------------------------------------ emails
michael == <<"m">>
daniel == <<"d">>
emma == <<"e">>
sophia == <<"s">>
james == <<"j">>
benjamin == <<"b">>
NoEmail == <<>>

\* ---------------------------------------------------------- seed activities
\* The keys of the activities dict, in insertion order (the order .items()
\* iterates in).  Two of the nine seeded activities are modelled.
ActivityOrder == <<"Chess Club", "Math Club">>

ActivityNames == {ActivityOrder[i] : i \in 1..Len(ActivityOrder)}

\* activities[name]["participants"] as the module literal sets it.
activities ==
    [n \in ActivityNames |->
        IF n = "Chess Club" THEN <<michael, daniel>> ELSE <<james, benjamin>>]

\* activities[name]["max_participants"]
max_participants(n) == IF n = "Chess Club" THEN ChessMax ELSE MathMax

\* ------------------------------------------------------------- list helpers
\* x in list
In(x, list) == \E i \in 1..Len(list) : list[i] = x

\* list.remove(x): removes the first occurrence of x (x is in list).
ListRemove(list, x) ==
    LET i == CHOOSE k \in 1..Len(list) :
                 list[k] = x /\ \A j \in 1..(k - 1) : list[j] # x
    IN  SubSeq(list, 1, i - 1) \o SubSeq(list, i + 1, Len(list))

\* dict[key] = value on a dict kept as a sequence of records in insertion
\* order: an existing key keeps its place, a new key goes last.
DictSet(dict, rec) ==
    IF \E i \in 1..Len(dict) : dict[i].student_id = rec.student_id
    THEN [i \in 1..Len(dict) |->
             IF dict[i].student_id = rec.student_id THEN rec ELSE dict[i]]
    ELSE Append(dict, rec)

\* del dict[key]
DictDel(dict, key) == SelectSeq(dict, LAMBDA r : r.student_id # key)

\* ------------------------------------------------------------------- files
NoFile == [exists |-> FALSE, rows |-> <<>>]

FileOf(rows) == [exists |-> TRUE, rows |-> rows]

\* The proper prefixes of a field's text.
Prefixes(s) == {SubSeq(s, 1, k) : k \in 0..(Len(s) - 1)}

\* What csv.reader yields for a line cut short inside row: a cut inside or right
\* after an earlier field gives a row of fewer fields (whose text no loader
\* reads: it is kept whole here), a cut inside the last field gives the row
\* with a prefix of that field.
TornRows(row) ==
    {SubSeq(row, 1, i) : i \in 1..(Len(row) - 1)}
        \cup {SubSeq(row, 1, Len(row) - 1) \o <<p>> : p \in Prefixes(row[Len(row)])}

\* The file after open("w") ... writerow(...) raised while writing rows: the
\* old file when open itself failed, else the truncated file holding some
\* prefix of the text.
FailedWrites(old, rows) ==
    {old}
        \cup {FileOf(SubSeq(rows, 1, k)) : k \in 0..Len(rows)}
        \cup UNION {{FileOf(Append(SubSeq(rows, 1, k - 1), t)) :
                        t \in TornRows(rows[k])} : k \in 1..Len(rows)}

VARIABLES
    participants,   \* activities[name]["participants"], by activity name
    data_file,      \* DATA_FILE (results.txt)
    students,       \* the students dict, as records in insertion order
    students_file,  \* STUDENTS_FILE (students.csv)
    call,           \* the last request: its arguments, result and save outcome
    reply,          \* the last GET request: its path, endpoint and response body
    threads,        \* the signup calls in progress on the worker threads
    workload        \* which endpoints the clients of this run call

vars == <<participants, data_file, students, students_file, call, reply, threads, workload>>


\* ------------------------------------------------------ activity persistence
\* LoadRow without the membership test of line 106.
LoadRow_without_membership_test(parts, row) ==
    IF Len(row) < 2 THEN parts
    ELSE IF row[1] \notin ActivityNames THEN parts
    ELSE [parts EXCEPT ![row[1]] = Append(@, row[2])]

\* The loop body of load_persistence for one row.
LoadRow(parts, row) ==
    IF Len(row) < 2 THEN parts
    ELSE IF row[1] \notin ActivityNames THEN parts
    ELSE IF In(row[2], parts[row[1]]) THEN parts
    ELSE [parts EXCEPT ![row[1]] = Append(@, row[2])]

RECURSIVE LoadRows(_, _)
LoadRows(parts, rows) ==
    IF rows = <<>> THEN parts
    ELSE LoadRows(LoadRow(parts, Head(rows)), Tail(rows))

\* load_persistence() reading the first `read` rows of the file: all of them,
\* or fewer when the read raised and the except clause swallowed it.
load_persistence(parts, file, read) ==
    IF ~file.exists THEN parts ELSE LoadRows(parts, SubSeq(file.rows, 1, read))

\* The rows writer.writerow writes for one activity.
RowsOf(parts, name) ==
    [i \in 1..Len(parts[name]) |-> <<name, parts[name][i]>>]

RECURSIVE RowsFrom(_, _)
RowsFrom(parts, k) ==
    IF k > Len(ActivityOrder) THEN <<>>
    ELSE RowsOf(parts, ActivityOrder[k]) \o RowsFrom(parts, k + 1)

\* save_persistence(): the rows of a write that succeeds.
save_persistence(parts) == RowsFrom(parts, 1)

\* ------------------------------------------------------- student persistence
Student(student_id, name, email) ==
    [student_id |-> student_id, name |-> name, email |-> email]

\* The loop body of load_students for one row.
LoadStudentRow(dict, row) ==
    IF Len(row) < 3 THEN dict
    ELSE DictSet(dict, Student(row[1], row[2], row[3]))

RECURSIVE LoadStudentRows(_, _)
LoadStudentRows(dict, rows) ==
    IF rows = <<>> THEN dict
    ELSE LoadStudentRows(LoadStudentRow(dict, Head(rows)), Tail(rows))

load_students(dict, file, read) ==
    IF ~file.exists THEN dict ELSE LoadStudentRows(dict, SubSeq(file.rows, 1, read))

\* save_students(): the rows of a write that succeeds.
save_students(dict) ==
    [i \in 1..Len(dict) |-> <<dict[i].student_id, dict[i].name, dict[i].email>>]

\* ---------------------------------------------------------------- requests
\* What the clients send.  "Knitting Club" is no key of activities.
RequestedNames == ActivityNames \cup {"Knitting Club"}

RequestedEmails(activity_name) ==
    IF activity_name = "Chess Club" THEN {michael, emma, sophia}
    ELSE IF activity_name = "Math Club" THEN {emma}
    ELSE {emma}

StudentIds == {"s1", "s2", "s3"}

StudentNames == {"Alice", "Amy", "Bob"}

\* Two of the emails differ by a suffix, as ann@mergington.edu and
\* ann@mergington.edu.au do.
StudentEmails == {<<"a">>, <<"a", "b">>, <<"c">>}

\* The registrations the clients send: three students of three names; a
\* second Bob; and a student who gives the email of another.
RegisterRequests ==
    {<<"s1", "Bob", <<"a">>>>,
     <<"s2", "Alice", <<"a", "b">>>>,
     <<"s3", "Amy", <<"c">>>>,
     <<"s3", "Bob", <<"c">>>>,
     <<"s2", "Bob", <<"a">>>>,
     <<"s4", "Amy", <<"d">>>>}

\* The record of a request: its arguments, what it answered (ok, or the
\* HTTPException raised: 404 NotFound; 400 AlreadySignedUp, Full, NotSignedUp,
\* RegistryFull, DuplicateId, DuplicateEmail; 500 PersistenceFailure) and
\* what became of its save ("none": not called, "ok", "failed").
Call(op, activity_name, student_id, name, email, result, save) ==
    [op |-> op, activity_name |-> activity_name, student_id |-> student_id,
     name |-> name, email |-> email, result |-> result, save |-> save]

\* What a handler leaves behind: the registry it works on, that registry's
\* file, its answer and what became of its save.
Outcome(registry, file, result, save) ==
    [registry |-> registry, file |-> file, result |-> result, save |-> save]

\* ------------------------------------------------------------------ signup
\* signup_check without the membership test of lines 196-201.
signup_check_without_membership_test(parts, activity_name, email) ==
    IF activity_name \notin ActivityNames THEN "NotFound"
    ELSE IF Len(parts[activity_name]) >= max_participants(activity_name) THEN "Full"
    ELSE "ok"

\* The validations of signup_for_activity, in the order the code runs them.
signup_check(parts, activity_name, email) ==
    IF activity_name \notin ActivityNames THEN "NotFound"
    ELSE IF In(email, parts[activity_name]) THEN "AlreadySignedUp"
    ELSE IF Len(parts[activity_name]) >= max_participants(activity_name) THEN "Full"
    ELSE "ok"

signup_apply_rechecking_capacity(parts, activity_name, email) ==
    IF Len(parts[activity_name]) >= max_participants(activity_name) THEN parts
    ELSE [parts EXCEPT ![activity_name] = Append(@, email)]

\* activity["participants"].append(email)
signup_apply(parts, activity_name, email) ==
    [parts EXCEPT ![activity_name] = Append(@, email)]

\* signup_rollback removing the first participant instead of the added one.
signup_rollback_removes_first(parts, activity_name, email) ==
    [parts EXCEPT ![activity_name] = Tail(@)]

\* except RuntimeError: activity["participants"].remove(email)
signup_rollback(parts, activity_name, email) ==
    [parts EXCEPT ![activity_name] = ListRemove(@, email)]

\* signup_for_activity with the append of line 208 moved above the capacity
\* check of line 204: a refused signup leaves the email in the roster.
signup_for_activity_appends_before_capacity_check(parts, file, activity_name, email) ==
    LET check == signup_check(parts, activity_name, email)
        added == signup_apply(parts, activity_name, email)
    IN  IF check = "Full" THEN {Outcome(added, file, check, "none")}
        ELSE IF check # "ok" THEN {Outcome(parts, file, check, "none")}
        ELSE {Outcome(added, FileOf(save_persistence(added)), "ok", "ok")}
                 \cup {Outcome(signup_rollback(added, activity_name, email), f,
                               "PersistenceFailure", "failed") :
                           f \in FailedWrites(file, save_persistence(added))}

\* The outcomes of signup_for_activity(activity_name, email) run on parts and
\* file: the validation error; or the append and a save that succeeds; or
\* the append, a save that raises and the removal.
signup_for_activity(parts, file, activity_name, email) ==
    LET check == signup_check(parts, activity_name, email)
        added == signup_apply(parts, activity_name, email)
    IN  IF check # "ok" THEN {Outcome(parts, file, check, "none")}
        ELSE {Outcome(added, FileOf(save_persistence(added)), "ok", "ok")}
                 \cup {Outcome(signup_rollback(added, activity_name, email), f,
                               "PersistenceFailure", "failed") :
                           f \in FailedWrites(file, save_persistence(added))}

\* -------------------------------------------------------------- unregister
unregister_check(parts, activity_name, email) ==
    IF activity_name \notin ActivityNames THEN "NotFound"
    ELSE IF ~In(email, parts[activity_name]) THEN "NotSignedUp"
    ELSE "ok"

\* unregister_apply removing the last participant (list.pop()) instead of
\* the given one.
unregister_apply_removes_last(parts, activity_name, email) ==
    [parts EXCEPT ![activity_name] = SubSeq(@, 1, Len(@) - 1)]

\* activity["participants"].remove(email)
unregister_apply(parts, activity_name, email) ==
    [parts EXCEPT ![activity_name] = ListRemove(@, email)]

\* except RuntimeError: activity["participants"].append(email)
unregister_rollback(parts, activity_name, email) ==
    [parts EXCEPT ![activity_name] = Append(@, email)]

\* unregister_from_activity with save_persistence() called before the removal
\* of line 237: the file still names the unregistered email.
unregister_from_activity_saves_before_removal(parts, file, activity_name, email) ==
    LET check == unregister_check(parts, activity_name, email)
        removed == unregister_apply(parts, activity_name, email)
    IN  IF check # "ok" THEN {Outcome(parts, file, check, "none")}
        ELSE {Outcome(removed, FileOf(save_persistence(parts)), "ok", "ok")}
                 \cup {Outcome(parts, f, "PersistenceFailure", "failed") :
                           f \in FailedWrites(file, save_persistence(parts))}

\* The outcomes of unregister_from_activity(activity_name, email): as for
\* signup, with the removal for the append and the append for the removal.
unregister_from_activity(parts, file, activity_name, email) ==
    LET check == unregister_check(parts, activity_name, email)
        removed == unregister_apply(parts, activity_name, email)
    IN  IF check # "ok" THEN {Outcome(parts, file, check, "none")}
        ELSE {Outcome(removed, FileOf(save_persistence(removed)), "ok", "ok")}
                 \cup {Outcome(unregister_rollback(removed, activity_name, email), f,
                               "PersistenceFailure", "failed") :
                           f \in FailedWrites(file, save_persistence(removed))}

\* ---------------------------------------------------------------- register
\* register_check with the unique-id check of line 257 ahead of the capacity
\* check of line 253.
register_check_id_before_capacity(dict, student_id, email) ==
    IF \E i \in 1..Len(dict) : dict[i].student_id = student_id THEN "DuplicateId"
    ELSE IF Len(dict) >= STUDENT_CAPACITY THEN "RegistryFull"
    ELSE IF \E i \in 1..Len(dict) : dict[i].email = email THEN "DuplicateEmail"
    ELSE "ok"

register_check_without_capacity_test(dict, student_id, email) ==
    IF \E i \in 1..Len(dict) : dict[i].student_id = student_id THEN "DuplicateId"
    ELSE IF \E i \in 1..Len(dict) : dict[i].email = email THEN "DuplicateEmail"
    ELSE "ok"

\* The validations of register_student, in the order the code runs them.
register_check(dict, student_id, email) ==
    IF Len(dict) >= STUDENT_CAPACITY THEN "RegistryFull"
    ELSE IF \E i \in 1..Len(dict) : dict[i].student_id = student_id THEN "DuplicateId"
    ELSE IF \E i \in 1..Len(dict) : dict[i].email = email THEN "DuplicateEmail"
    ELSE "ok"

\* students[student_id] = Student(student_id, name, email)
register_apply(dict, student_id, name, email) ==
    DictSet(dict, Student(student_id, name, email))

register_rollback_keeps_student(dict, student_id) == dict

\* except RuntimeError: del students[student_id]
register_rollback(dict, student_id) == DictDel(dict, student_id)

register_student(dict, file, student_id, name, email) ==
    LET check == register_check(dict, student_id, email)
        inserted == register_apply(dict, student_id, name, email)
    IN  IF check # "ok" THEN {Outcome(dict, file, check, "none")}
        ELSE {Outcome(inserted, FileOf(save_students(inserted)), "ok", "ok")}
                 \cup {Outcome(register_rollback(inserted, student_id), f,
                               "PersistenceFailure", "failed") :
                           f \in FailedWrites(file, save_students(inserted))}

\* ---------------------------------------------------------- read endpoints
\* The code points of the names the clients register, for Python's comparison
\* of str values.
CodePoints(name) ==
    CASE name = "Alice" -> <<65, 108, 105, 99, 101>>
      [] name = "Amy" -> <<65, 109, 121>>
      [] name = "Bob" -> <<66, 111, 98>>

\* a < b on sequences of code points: the first difference decides, a proper
\* prefix is smaller.
RECURSIVE SeqLess(_, _)
SeqLess(a, b) ==
    IF b = <<>> THEN FALSE
    ELSE IF a = <<>> THEN TRUE
    ELSE IF Head(a) # Head(b) THEN Head(a) < Head(b)
    ELSE SeqLess(Tail(a), Tail(b))

\* s.name < t.name
NameLess(a, b) == SeqLess(CodePoints(a), CodePoints(b))

InsertByName_before_equal_names(roster, s) ==
    LET k == Cardinality({i \in 1..Len(roster) : NameLess(roster[i].name, s.name)})
    IN  SubSeq(roster, 1, k) \o <<s>> \o SubSeq(roster, k + 1, Len(roster))

\* One student put into a roster sorted by name, behind every student whose
\* name is not greater: sorted() is stable.
InsertByName(roster, s) ==
    LET k == Cardinality({i \in 1..Len(roster) : ~NameLess(s.name, roster[i].name)})
    IN  SubSeq(roster, 1, k) \o <<s>> \o SubSeq(roster, k + 1, Len(roster))

RECURSIVE SortByName(_, _)
SortByName(roster, rest) ==
    IF rest = <<>> THEN roster
    ELSE SortByName(InsertByName(roster, Head(rest)), Tail(rest))

\* list_students(): sorted(list(students.values()), key=lambda s: s.name)
list_students(dict) == SortByName(<<>>, dict)

\* available_seats(): {"available_seats": STUDENT_CAPACITY - len(students)}
available_seats(dict) == [available_seats |-> STUDENT_CAPACITY - Len(dict)]

\* get_student(student_id): the student, or 404
get_student(dict, student_id) ==
    IF \E i \in 1..Len(dict) : dict[i].student_id = student_id
    THEN [status |-> "ok",
          body |-> dict[CHOOSE i \in 1..Len(dict) : dict[i].student_id = student_id]]
    ELSE [status |-> "NotFound", body |-> "Student not found"]

\* ------------------------------------------------------------------ routing
\* The path operations in the order the decorators add them to the router.
\* A path is its sequence of segments.  (The /static mount, added first,
\* matches only paths under /static.)
Routes ==
    << [method |-> "GET", path |-> <<>>, endpoint |-> "root"],
       [method |-> "GET", path |-> <<"activities">>, endpoint |-> "get_activities"],
       [method |-> "POST", path |-> <<"activities", "{activity_name}", "signup">>,
        endpoint |-> "signup_for_activity"],
       [method |-> "DELETE", path |-> <<"activities", "{activity_name}", "unregister">>,
        endpoint |-> "unregister_from_activity"],
       [method |-> "POST", path |-> <<"students">>, endpoint |-> "register_student"],
       [method |-> "GET", path |-> <<"students", "{student_id}">>,
        endpoint |-> "get_student"],
       [method |-> "GET", path |-> <<"students">>, endpoint |-> "list_students"],
       [method |-> "GET", path |-> <<"students", "available_seats">>,
        endpoint |-> "available_seats"] >>

\* The segments that are path parameters: each matches any one segment.
PathParameters == {"{activity_name}", "{student_id}"}

\* Whether a route's path matches a request's.
Matches(pattern, path) ==
    /\ Len(pattern) = Len(path)
    /\ \A i \in 1..Len(pattern) :
           pattern[i] \in PathParameters \/ pattern[i] = path[i]

\* The endpoint a request is dispatched to: that of the first route, in the
\* order of Routes, whose method and path match.
Dispatch(method, path) ==
    LET full == {i \in 1..Len(Routes) :
                    Routes[i].method = method /\ Matches(Routes[i].path, path)}
    IN  IF full = {} THEN "none"
        ELSE Routes[CHOOSE i \in full : \A j \in full : i <= j].endpoint

\* The GET requests the clients send.
GetPaths ==
    {<<"students">>, <<"students", "available_seats">>,
     <<"students", "s1">>, <<"students", "s3">>, <<"teachers">>}

NoReply == [path |-> <<>>, endpoint |-> "", body |-> <<>>]

\* The response to GET path: the endpoint it reaches, the status and the body.
get(dict, path) ==
    LET endpoint == Dispatch("GET", path)
    IN  IF endpoint = "get_student"
        THEN [endpoint |-> endpoint,
              status |-> get_student(dict, path[2]).status,
              body |-> get_student(dict, path[2]).body]
        ELSE IF endpoint = "list_students"
        THEN [endpoint |-> endpoint, status |-> "ok", body |-> list_students(dict)]
        ELSE IF endpoint = "available_seats"
        THEN [endpoint |-> endpoint, status |-> "ok", body |-> available_seats(dict)]
        ELSE [endpoint |-> endpoint, status |-> "NotFound", body |-> "Not Found"]

\* ------------------------------------------------------------------ threads
\* signup_for_activity is a plain def, which the framework runs on a worker
\* thread: two calls can be in progress at once.
Threads == {"t1", "t2"}

\* A thread with no call in progress, and one inside signup_for_activity:
\* pc "append" is line 208 (the checks passed), pc "save" line 210.
Idle == [pc |-> "idle", activity_name |-> "", email |-> NoEmail]

Running(pc, activity_name, email) ==
    [pc |-> pc, activity_name |-> activity_name, email |-> email]

\* The signups the concurrent clients send.
ConcurrentEmails == {emma, sophia}

\* ----------------------------------------------------------------- actions
\* POST /activities/{activity_name}/signup?email=
Signup ==
    /\ workload = "activities"
    /\ \E activity_name \in RequestedNames :
         \E email \in RequestedEmails(activity_name) :
             \E o \in signup_for_activity(participants, data_file, activity_name, email) :
                 /\ participants' = o.registry
                 /\ data_file' = o.file
                 /\ call' = Call("signup", activity_name, "", "", email, o.result, o.save)
    /\ reply' = NoReply
    /\ UNCHANGED <<students, students_file, threads, workload>>

\* DELETE /activities/{activity_name}/unregister?email=
Unregister ==
    /\ workload \in {"activities", "concurrent"}
    /\ \E activity_name \in RequestedNames :
         \E email \in RequestedEmails(activity_name) :
             \E o \in unregister_from_activity(participants, data_file, activity_name, email) :
                 /\ participants' = o.registry
                 /\ data_file' = o.file
                 /\ call' = Call("unregister", activity_name, "", "", email, o.result, o.save)
    /\ reply' = NoReply
    /\ UNCHANGED <<students, students_file, threads, workload>>

\* POST /students?student_id=&name=&email=
Register ==
    /\ workload = "students"
    /\ \E r \in RegisterRequests :
         LET student_id == r[1]
             name == r[2]
             email == r[3]
         IN  \E o \in register_student(students, students_file, student_id, name, email) :
                 /\ students' = o.registry
                 /\ students_file' = o.file
                 /\ call' = Call("register", "", student_id, name, email, o.result, o.save)
    /\ reply' = NoReply
    /\ UNCHANGED <<participants, data_file, threads, workload>>

\* GET path
Get ==
    /\ workload = "students"
    /\ \E path \in GetPaths :
         LET r == get(students, path)
         IN  /\ call' = Call("get", "", "", "", NoEmail, r.status, "none")
             /\ reply' = [path |-> path, endpoint |-> r.endpoint, body |-> r.body]
    /\ UNCHANGED <<participants, data_file, students, students_file, threads, workload>>

\* The module body run by a new process: the activities literal, then
\* load_persistence(); the empty students dict, then load_students().  Each
\* load reads the whole file, or stops early when reading raised.
Restart ==
    \E read \in 0..Len(data_file.rows), sread \in 0..Len(students_file.rows) :
        /\ participants' = load_persistence(activities, data_file, read)
        /\ students' = load_students(<<>>, students_file, sread)
        /\ call' = Call("restart", "", "", "", NoEmail,
                        IF read = Len(data_file.rows) /\ sread = Len(students_file.rows)
                        THEN "ok" ELSE "LoadFailed",
                        "none")
        /\ reply' = NoReply
        /\ UNCHANGED <<data_file, students_file, threads, workload>>

\* Lines 189-205 on thread t: the checks of a new signup call, read from the
\* registry as it is now.  A check that fails answers the call.
SignupCheck(t) ==
    /\ workload = "concurrent"
    /\ threads[t].pc = "idle"
    /\ \E email \in ConcurrentEmails :
         LET activity_name == "Chess Club"
             check == signup_check(participants, activity_name, email)
         IN  IF check = "ok"
             THEN /\ threads' = [threads EXCEPT ![t] = Running("append", activity_name, email)]
                  /\ UNCHANGED call
             ELSE /\ call' = Call("signup", activity_name, "", "", email, check, "none")
                  /\ UNCHANGED threads
    /\ reply' = NoReply
    /\ UNCHANGED <<participants, data_file, students, students_file, workload>>

\* Line 208 on thread t: the append, whatever the roster has become since
\* the checks.
SignupAppend(t) ==
    /\ threads[t].pc = "append"
    /\ participants' = signup_apply(participants, threads[t].activity_name, threads[t].email)
    /\ threads' = [threads EXCEPT ![t].pc = "save"]
    /\ reply' = NoReply
    /\ UNCHANGED <<data_file, students, students_file, call, workload>>

\* Lines 209-216 on thread t: the save of the registry as it is now, and the
\* removal when it raises.
SignupSave(t) ==
    /\ threads[t].pc = "save"
    /\ LET activity_name == threads[t].activity_name
           email == threads[t].email
       IN  \/ /\ data_file' = FileOf(save_persistence(participants))
               /\ call' = Call("signup", activity_name, "", "", email, "ok", "ok")
               /\ UNCHANGED participants
           \/ \E f \in FailedWrites(data_file, save_persistence(participants)) :
                  /\ data_file' = f
                  /\ IF In(email, participants[activity_name])
                     THEN /\ participants' = signup_rollback(participants, activity_name, email)
                          /\ call' = Call("signup", activity_name, "", "", email,
                                          "PersistenceFailure", "failed")
                     ELSE \* remove raises ValueError: an unregister took the email
                          /\ call' = Call("signup", activity_name, "", "", email,
                                          "ServerError", "failed")
                          /\ UNCHANGED participants
    /\ threads' = [threads EXCEPT ![t] = Idle]
    /\ reply' = NoReply
    /\ UNCHANGED <<students, students_file, workload>>

\* ------------------------------------------------------------ specification
\* A first start of the process with neither file on disk.  The handlers of
\* one registry read and write nothing of the other, so a run is followed
\* with the clients of one registry at a time.
Started ==
    /\ data_file = NoFile
    /\ students_file = NoFile
    /\ participants = load_persistence(activities, NoFile, 0)
    /\ students = load_students(<<>>, NoFile, 0)
    /\ call = Call("start", "", "", "", NoEmail, "ok", "none")
    /\ reply = NoReply
    /\ threads = [t \in Threads |-> Idle]

Init == workload \in {"activities", "students"} /\ Started

Next == Signup \/ Unregister \/ Register \/ Get \/ Restart

Spec == Init /\ [][Next]_vars

\* The runs in which no write and no read of a file fails.
NextNoFault == Next /\ call'.save # "failed" /\ call'.result # "LoadFailed"

SpecNoFault == Init /\ [][NextNoFault]_vars

\* The runs in which signup calls overlap: each step is one thread's next
\* piece of signup_for_activity, or a whole unregister call.
InitConc == workload = "concurrent" /\ Started

NextConc ==
    \/ \E t \in Threads : SignupCheck(t)
    \/ \E t \in Threads : SignupAppend(t)
    \/ \E t \in Threads : SignupSave(t)
    \/ Unregister

SpecConc == InitConc /\ [][NextConc]_vars

\* ------------------------------------------------------------------ claims
\* The number of places of list that hold x.
Count(x, list) == Cardinality({i \in 1..Len(list) : list[i] = x})

\* The emails of the file's rows for one activity, in file order.
FileEmails(file, name) ==
    LET mine == SelectSeq(file.rows, LAMBDA row : row[1] = name)
    IN  [i \in 1..Len(mine) |-> mine[i][2]]

\* C1: in every reachable state (after a start that loads the file an earlier
\* run wrote, and after any signup or unregister, saved or not) every
\* activity has at most max_participants participants.
C1_CapacityInvariant ==
    \A n \in ActivityNames : Len(participants[n]) <= max_participants(n)

\* C2: in every reachable state no email occurs twice in the participants of
\* one activity.
C2_NoDuplicateEmails ==
    \A n \in ActivityNames :
        \A i, j \in 1..Len(participants[n]) :
            participants[n][i] = participants[n][j] => i = j

\* A start has loaded a file in which a row names a participant the roster
\* already held (a seeded one) and a row names one it did not.
C2_Witness ==
    /\ call.op = "restart"
    /\ call.result = "ok"
    /\ \E i \in 1..Len(data_file.rows) :
           data_file.rows[i] = <<"Chess Club", daniel>>
    /\ \E i \in 1..Len(data_file.rows) :
           data_file.rows[i] = <<"Chess Club", emma>>
    /\ In(emma, participants["Chess Club"])

\* C3: a signup that passed validation and whose save failed leaves the
\* participants of every activity as they were before the call, element for
\* element and in the same order.
C3_SignupRollback ==
    [][(call'.op = "signup" /\ call'.save = "failed")
          => participants' = participants]_vars

\* A signup has answered with a persistence failure while the roster it
\* appended to held other participants.
C3_Witness ==
    /\ call.op = "signup"
    /\ call.save = "failed"
    /\ call.result = "PersistenceFailure"
    /\ Len(participants[call.activity_name]) >= 1

\* C4: an unregister that passed validation and whose save failed leaves the
\* activity's participants as they were before the call, same elements in
\* the same order, wherever the removed email stood.
C4_UnregisterRollback ==
    [][(call'.op = "unregister" /\ call'.save = "failed")
          => participants' = participants]_vars

\* C5: from a state whose file is what save_persistence writes for the
\* participants in memory, a restart that loads the whole file yields the
\* same participants, activity by activity and in the same order.
C5_RoundTrip ==
    [][(/\ call'.op = "restart"
        /\ call'.result = "ok"
        /\ data_file = FileOf(save_persistence(participants)))
          => participants' = participants]_vars

\* The roster with every occurrence of email taken out, the rest in order.
Without(list, email) == SelectSeq(list, LAMBDA x : x # email)

\* C6: signup answers NotFound if the activity name is absent; else
\* AlreadySignedUp if the email is in participants (also when the activity is
\* full); else Full if the participants length equals max_participants;
\* otherwise it appends the email at the end of participants and leaves the
\* other participants and their order as they were.
C6_SignupOrder ==
    [][call'.op = "signup" =>
        LET n == call'.activity_name
            e == call'.email
            r == call'.result
        IN  /\ (r = "NotFound") <=> (n \notin ActivityNames)
            /\ n \in ActivityNames =>
                 /\ (r = "AlreadySignedUp") <=> In(e, participants[n])
                 /\ (r = "Full") <=>
                        (/\ ~In(e, participants[n])
                         /\ Len(participants[n]) = max_participants(n))
                 /\ (/\ ~In(e, participants[n])
                     /\ Len(participants[n]) # max_participants(n))
                        => r \in {"ok", "PersistenceFailure"}
                 /\ r = "ok" =>
                        participants' =
                            [participants EXCEPT ![n] = participants[n] \o <<e>>]
    ]_vars

\* C6 with "at least" for "equals": the order of the checks and the append,
\* as the code runs them on a roster of any length.
C6_SignupOrderAtLeast ==
    [][call'.op = "signup" =>
        LET n == call'.activity_name
            e == call'.email
            r == call'.result
        IN  /\ (r = "NotFound") <=> (n \notin ActivityNames)
            /\ n \in ActivityNames =>
                 /\ (r = "AlreadySignedUp") <=> In(e, participants[n])
                 /\ (r = "Full") <=>
                        (/\ ~In(e, participants[n])
                         /\ Len(participants[n]) >= max_participants(n))
                 /\ (/\ ~In(e, participants[n])
                     /\ Len(participants[n]) < max_participants(n))
                        => r \in {"ok", "PersistenceFailure"}
                 /\ r = "ok" =>
                        participants' =
                            [participants EXCEPT ![n] = participants[n] \o <<e>>]
    ]_vars

\* C7: once signup(a, e) has succeeded, every later signup(a, e) in the same
\* process with no successful unregister(a, e) in between answers
\* AlreadySignedUp and changes nothing, and e occurs exactly once in a's
\* participants.  Stated step by step: a successful signup leaves e exactly
\* once in the roster; while e is in the roster, signup(a, e) answers
\* AlreadySignedUp and leaves participants as they are; e never comes to occur
\* twice; and only a successful unregister(a, e) takes e out (a restart starts
\* another process).
C7_IdempotentReject ==
    [][/\ (call'.op = "signup" /\ call'.result = "ok")
           => Count(call'.email, participants'[call'.activity_name]) = 1
       /\ (/\ call'.op = "signup"
           /\ call'.activity_name \in ActivityNames
           /\ In(call'.email, participants[call'.activity_name]))
              => (/\ call'.result = "AlreadySignedUp"
                  /\ participants' = participants)
       /\ \A n \in ActivityNames :
             participants'[n] # participants[n] =>
                 \A i \in 1..Len(participants[n]) :
                     LET e == participants[n][i]
                     IN  /\ Count(e, participants[n]) = 1
                                => Count(e, participants'[n]) <= 1
                         /\ ~In(e, participants'[n])
                                => \/ call'.op = "restart"
                                   \/ /\ call'.op = "unregister"
                                      /\ call'.activity_name = n
                                      /\ call'.email = e
                                      /\ call'.result = "ok"
    ]_vars

\* A signup of emma, whom only an earlier successful signup put in the Chess
\* Club roster, has been answered AlreadySignedUp.
C7_Witness ==
    /\ call.op = "signup"
    /\ call.activity_name = "Chess Club"
    /\ call.email = emma
    /\ call.result = "AlreadySignedUp"
    /\ Count(emma, participants["Chess Club"]) = 1

\* C8: unregister answers NotFound if the activity name is absent; else
\* NotSignedUp if the email is not in participants; otherwise it removes the
\* email: the email is then not in the activity's participants, the other
\* participants keep their relative order, and every other activity's
\* participants are unchanged.
C8_Unregister ==
    [][call'.op = "unregister" =>
        LET n == call'.activity_name
            e == call'.email
            r == call'.result
        IN  /\ (r = "NotFound") <=> (n \notin ActivityNames)
            /\ n \in ActivityNames =>
                 /\ (r = "NotSignedUp") <=> ~In(e, participants[n])
                 /\ In(e, participants[n]) => r \in {"ok", "PersistenceFailure"}
                 /\ r = "ok" =>
                        /\ ~In(e, participants'[n])
                        /\ participants'[n] = Without(participants[n], e)
                        /\ \A o \in ActivityNames \ {n} :
                               participants'[o] = participants[o]
    ]_vars

\* An unregister has succeeded on a roster that held the email in the first
\* place, ahead of participants who stay.
C8_Witness ==
    /\ call.op = "unregister"
    /\ call.result = "ok"
    /\ call.activity_name = "Chess Club"
    /\ call.email = michael
    /\ participants["Chess Club"] = <<daniel, emma>>

\* C9: a signup, unregister or register answers ok only after its save has
\* succeeded, and at that moment the file that save wrote holds the registry
\* in memory: per activity the same emails in the same order and no other
\* row, or the same student rows in the same order; a call whose save failed
\* never answers ok.
C9_SuccessAfterSave ==
    /\ (call.op \in {"signup", "unregister", "register"} /\ call.result = "ok")
          => call.save = "ok"
    /\ call.save = "failed" => call.result = "PersistenceFailure"
    /\ (call.op \in {"signup", "unregister"} /\ call.result = "ok") =>
          /\ data_file.exists
          /\ \A i \in 1..Len(data_file.rows) :
                /\ Len(data_file.rows[i]) = 2
                /\ data_file.rows[i][1] \in ActivityNames
          /\ \A n \in ActivityNames : FileEmails(data_file, n) = participants[n]
    /\ (call.op = "register" /\ call.result = "ok") =>
          /\ students_file.exists
          /\ Len(students_file.rows) = Len(students)
          /\ \A i \in 1..Len(students) :
                students_file.rows[i] =
                    <<students[i].student_id, students[i].name, students[i].email>>

\* A signup has answered ok, with both activities' rosters in the file.
C9_Witness ==
    /\ call.op = "signup"
    /\ call.result = "ok"
    /\ call.save = "ok"
    /\ In(call.email, participants[call.activity_name])
    /\ \A n \in ActivityNames : participants[n] # <<>>

\* The validation errors of the three handlers.
ValidationErrors ==
    {"NotFound", "AlreadySignedUp", "Full", "NotSignedUp",
     "RegistryFull", "DuplicateId", "DuplicateEmail"}

\* C10: when validation fails in signup, unregister or register, nothing is
\* touched: the participants, the students and both files are unchanged, and
\* save is not called.
C10_ValidationFrame ==
    [][(/\ call'.op \in {"signup", "unregister", "register"}
        /\ call'.result \in ValidationErrors)
          => /\ call'.save = "none"
             /\ UNCHANGED <<participants, students, data_file, students_file>>
    ]_vars

\* A signup has been refused as Full after an earlier request wrote the file.
C10_Witness ==
    /\ call.op = "signup"
    /\ call.result = "Full"
    /\ call.save = "none"
    /\ data_file.exists

\* C11: register answers RegistryFull if the student count is at least
\* STUDENT_CAPACITY; else DuplicateId if student_id is a key; else
\* DuplicateEmail if a registered student has the email; otherwise it inserts
\* the student.  A full registry answers RegistryFull also to a candidate
\* with a duplicate id or email.
C11_RegisterOrder ==
    [][call'.op = "register" =>
        LET r == call'.result
            full == Len(students) >= STUDENT_CAPACITY
            dupId == \E i \in 1..Len(students) :
                         students[i].student_id = call'.student_id
            dupEmail == \E i \in 1..Len(students) :
                            students[i].email = call'.email
        IN  /\ (r = "RegistryFull") <=> full
            /\ (r = "DuplicateId") <=> (~full /\ dupId)
            /\ (r = "DuplicateEmail") <=> (~full /\ ~dupId /\ dupEmail)
            /\ (~full /\ ~dupId /\ ~dupEmail) => r \in {"ok", "PersistenceFailure"}
            /\ r = "ok" =>
                   students' =
                       students \o <<[student_id |-> call'.student_id,
                                      name |-> call'.name,
                                      email |-> call'.email]>>
    ]_vars

\* A full registry has answered RegistryFull to a candidate whose id and
\* email are those of a registered student.
C11_Witness ==
    /\ call.op = "register"
    /\ call.result = "RegistryFull"
    /\ \E i \in 1..Len(students) :
           /\ students[i].student_id = call.student_id
           /\ students[i].email = call.email


\* C12: the registry never holds more than STUDENT_CAPACITY students, at the
\* first start, after every request and after every restart that loads the
\* file an earlier run wrote, so available_seats is never negative; a register
\* that succeeds lowers available_seats by exactly one, and when the registry
\* is full every register answers RegistryFull and available_seats stays 0.
C12_AvailableSeats ==
    /\ Len(students) <= STUDENT_CAPACITY
    /\ [][LET seats == available_seats(students).available_seats
              seats_after == available_seats(students').available_seats
          IN  /\ Len(students') <= STUDENT_CAPACITY
              /\ seats_after >= 0
              /\ seats_after = STUDENT_CAPACITY - Len(students')
              /\ (call'.op = "register" /\ call'.result = "ok")
                     => seats_after = seats - 1
              /\ (call'.op = "register" /\ Len(students) = STUDENT_CAPACITY)
                     => /\ call'.result = "RegistryFull"
                        /\ seats_after = 0
         ]_vars

\* A register of a student whose id and email are both new is answered
\* RegistryFull by a full registry.
C12_Witness ==
    /\ call.op = "register"
    /\ call.result = "RegistryFull"
    /\ Len(students) = STUDENT_CAPACITY
    /\ available_seats(students).available_seats = 0
    /\ \A i \in 1..Len(students) :
           students[i].student_id # call.student_id /\ students[i].email # call.email

\* C13: in every state, after a start and after every register whether its
\* save succeeds or fails, no two students of the registry have the same
\* email and no two have the same student_id.
C13_UniqueEmails ==
    \A i, j \in 1..Len(students) :
        i # j => /\ students[i].email # students[j].email
                 /\ students[i].student_id # students[j].student_id

\* C14: a register whose save_students fails leaves the students map as it
\* was before the call, with the same students in the same order, and a
\* register with the same student_id and email then passes the duplicate
\* checks again.
C14_RegisterRollback ==
    [][(call'.op = "register" /\ call'.save = "failed")
          => /\ call'.result = "PersistenceFailure"
             /\ students' = students
             /\ register_check(students', call'.student_id, call'.email) = "ok"
      ]_vars

\* A register into a registry of two students failed to save.
C14_Witness ==
    /\ call.op = "register"
    /\ call.save = "failed"
    /\ call.result = "PersistenceFailure"
    /\ Len(students) = 2
    /\ \A i \in 1..Len(students) : students[i].student_id # call.student_id

\* C15: every GET /students/available_seats is dispatched to available_seats
\* and answered with the number of free seats, never by get_student.
C15_AvailableSeatsRoute ==
    reply.path = <<"students", "available_seats">>
        => /\ reply.endpoint = "available_seats"
           /\ call.result = "ok"
           /\ reply.body = available_seats(students)

\* The place of a student in the registry, by its key.
PlaceOf(student_id) ==
    CHOOSE i \in 1..Len(students) : students[i].student_id = student_id

\* C16: in every state, also after a restart, list_students returns each
\* student of the registry exactly once, no student before one whose name is
\* smaller, and students of equal names in the order of their registration;
\* Bob, Alice, Amy registered in that order are listed Alice, Amy, Bob; and
\* GET /students answers with that list.
C16_ListStudents ==
    LET listed == list_students(students)
    IN  /\ Len(listed) = Len(students)
        /\ \A i \in 1..Len(students) :
               Cardinality({j \in 1..Len(listed) : listed[j] = students[i]}) = 1
        /\ \A i, j \in 1..Len(listed) :
               i < j => /\ listed[j].name = "Alice" => listed[i].name = "Alice"
                        /\ listed[j].name = "Amy" => listed[i].name \in {"Alice", "Amy"}
                        /\ listed[i].name = listed[j].name
                              => PlaceOf(listed[i].student_id) < PlaceOf(listed[j].student_id)
        /\ [i \in 1..Len(students) |-> students[i].name] = <<"Bob", "Alice", "Amy">>
               => [i \in 1..Len(listed) |-> listed[i].name] = <<"Alice", "Amy", "Bob">>
        /\ reply.path = <<"students">>
               => reply.endpoint = "list_students" /\ reply.body = listed

\* GET /students listed a registry of Bob, Alice and a second Bob.
C16_Witness ==
    /\ reply.endpoint = "list_students"
    /\ Len(students) >= 3
    /\ students[1].name = "Bob"
    /\ students[2].name = "Alice"
    /\ students[3].name = "Bob"
    /\ reply.body[2] = students[1]
    /\ reply.body[3] = students[3]

\* C17: when signup calls overlap, a thread that passed the checks appends
\* its email whatever the roster has become since, full or not; a roster
\* first exceeds max_participants by such an append and by nothing else; and
\* it exceeds it by at most one email per further thread.
C17_CheckThenAct ==
    /\ \A n \in ActivityNames :
           Len(participants[n]) <= max_participants(n) + Cardinality(Threads) - 1
    /\ [][(\A t \in Threads :
                (threads[t].pc = "append" /\ threads'[t].pc = "save")
                    => participants' =
                           [participants EXCEPT ![threads[t].activity_name] =
                               Append(@, threads[t].email)])
           /\
           (\A n \in ActivityNames :
                (/\ Len(participants[n]) <= max_participants(n)
                 /\ Len(participants'[n]) > max_participants(n))
                    => \E u \in Threads :
                          /\ threads[u] = Running("append", n, threads[u].email)
                          /\ threads'[u].pc = "save")
         ]_vars

\* Two signups of different emails both passed the checks of Chess Club and
\* both appended: the roster holds one email more than max_participants.
C17_Witness ==
    /\ threads["t1"].pc = "save"
    /\ threads["t2"].pc = "save"
    /\ threads["t1"].activity_name = "Chess Club"
    /\ threads["t2"].activity_name = "Chess Club"
    /\ threads["t1"].email # threads["t2"].email
    /\ In(threads["t1"].email, participants["Chess Club"])
    /\ In(threads["t2"].email, participants["Chess Club"])
    /\ Len(participants["Chess Club"]) = max_participants("Chess Club") + 1

\* The records a file holds.
RecordSet(file) == {file.rows[i] : i \in 1..Len(file.rows)}

\* C18: a signup, unregister or register whose save fails leaves in both
\* files the records they held before the call.
C18_FailedSaveKeepsFile ==
    [][call'.save = "failed"
          => /\ RecordSet(data_file') = RecordSet(data_file)
             /\ RecordSet(students_file') = RecordSet(students_file)
      ]_vars

\* C19: a restart that reads the whole students file yields the students map
\* the process held before it: the same student_ids, the same name and email
\* for each, in the same order, so that every student registered with success
\* is still registered.
C19_StudentsRoundTrip ==
    [][(call'.op = "restart" /\ call'.result = "ok") => students' = students]_vars

\* C19, the round trip alone: a restart that reads the whole of a file that
\* is what save_students writes for the students map yields that map.
C19_SaveThenRestart ==
    [][(/\ call'.op = "restart"
        /\ call'.result = "ok"
        /\ students_file = FileOf(save_students(students)))
          => students' = students]_vars
====
